---- MODULE Spec2Model ----
(***************************************************************************)
(* Program Tester (src/test.py): static analysis of one uploaded Python    *)
(* file, a smoke test of it in a child process under a timeout, and the    *)
(* verdict that scores both.                                               *)
(*                                                                         *)
(* Two specifications share the variables below.                           *)
(*   SpecStatic   static_analysis() and verdict() applied to every source  *)
(*                text of a bounded set                                    *)
(*   Spec         the application: the buttons, the worker thread, the     *)
(*                staging directory and the child process                  *)
(***************************************************************************)
EXTENDS Integers, Sequences, FiniteSets, TLC

VARIABLES
    source,       \* static_analysis: the text read_text returned
    static_rep,   \* _run_checks_thread: static_rep
    test_rep,     \* _run_checks_thread: test_rep
    v,            \* _run_checks_thread: v
    pc,           \* position of the worker thread / of the function applied
    program_path, \* ProgramTesterApp.program_path
    is_running,   \* ProgramTesterApp.is_running
    buttons,      \* state of btn_upload, btn_test, btn_info
    status,       \* text of the status label
    output,       \* lines of the output widget
    after_queue,  \* callbacks handed to root.after(0, ...), oldest first
    runs,         \* worker threads started so far
    e,            \* _run_checks_thread: the name e of the except clause
    platform,     \* sys.platform
    td,           \* run_basic_unit_test: the staging directory exists
    children,     \* the child processes this run launched, oldest first
    r1,           \* run_basic_unit_test: r1
    r2,           \* run_basic_unit_test: r2
    expr,         \* ScientificCalculator.expr, the text handed to eval_expr
    result        \* ScientificCalculator.calculate: what eval_expr did

\* Python's None.
None == [none |-> TRUE]

\* The builtins min and max of two numbers.
Min(a, b) == IF a < b THEN a ELSE b
Max(a, b) == IF a > b THEN a ELSE b

(***************************************************************************)
(* Bounds of the model.                                                    *)
(***************************************************************************)
\* Counts of long lines, repeated patterns, undocumented functions and badly
\* named definitions are enumerated densely up to MaxCount.
MaxCount == 2
\* Test runs started and files selected per session.
MaxRuns == 2
MaxUploads == 2

(***************************************************************************)
(* The source text.  A text is described by what the analysers read of it:  *)
(*   compiles   what compile(source, "<uploaded>", "exec") does             *)
(*   lines      source.splitlines(True), one record per line                *)
(*   tok_error  0, or the line at which tokenize raises                     *)
(*   tree       ast.parse(source), when the text compiles                   *)
(*   ast_raises the parse or the walk raises although the text compiles     *)
(* A line: start is its first character ("\t", " " or "x" for any other,    *)
(* "" for an empty line), length is len(line.rstrip("\n")), trailing says   *)
(* that it ends in blanks, has_tab that it holds a tab, text is the pattern *)
(* key it contains ("plain" for none), comment its comment token (<<>> for  *)
(* none) as a sequence of characters.                                       *)
(***************************************************************************)
Line(start, length, trailing, has_tab, text, comment) ==
    [start |-> start, length |-> length, trailing |-> trailing,
     has_tab |-> has_tab, text |-> text, comment |-> comment]

PlainLine == Line("x", 10, FALSE, FALSE, "plain", <<>>)

Take(s, n) == SubSeq(s, 1, Min(n, Len(s)))

Repeat(x, n) == [i \in 1..n |-> x]

\* A function that returned `value`, and one that raised `exc`.
Returned(value) == [raised |-> FALSE, value |-> value]
Raised(exc) == [raised |-> TRUE, exc |-> exc]

(***************************************************************************)
(* syntax_check (src/test.py 110-124)                                      *)
(***************************************************************************)
\* compile() returns, raises SyntaxError (or a subclass), or raises another
\* exception (RecursionError on a very deeply nested expression).
CompileOutcomes == {"ok", "SyntaxError", "RecursionError"}

\* A slip: the error record is dropped.
syntax_check_no_error(src) ==
    IF src.compiles = "ok" THEN Returned([ok |-> TRUE, error |-> None])
    ELSE IF src.compiles = "SyntaxError"
         THEN Returned([ok |-> FALSE, error |-> None])
         ELSE Raised(src.compiles)

syntax_check(src) ==
    IF src.compiles = "ok" THEN Returned([ok |-> TRUE, error |-> None])
    ELSE IF src.compiles = "SyntaxError"
         THEN Returned([ok |-> FALSE, error |-> [type |-> "SyntaxError"]])
         ELSE Raised(src.compiles)

(***************************************************************************)
(* style_check (src/test.py 127-160)                                       *)
(***************************************************************************)
LongLineLimit == 100
IssueCap == 200

Issue(line, type, detail) == [line |-> line, type |-> type, detail |-> detail]

\* What iteration k of the loop of lines 141-154 does.
StyleStep(lines, k) ==
    LET ln == lines[k]
        isLong == ln.length > LongLineLimit
        i1 == IF isLong
              THEN <<Issue(<<k>>, "LongLine", <<"Length={len(raw)} > 100", ln.length>>)>>
              ELSE <<>>
        i2 == IF ln.trailing
              THEN <<Issue(<<k>>, "TrailingWhitespace", <<"Trailing spaces/tabs">>)>>
              ELSE <<>>
    IN  [long |-> IF isLong THEN 1 ELSE 0,
         trailing |-> IF ln.trailing THEN 1 ELSE 0,
         tabs |-> IF ln.has_tab THEN 1 ELSE 0,
         issues |-> i1 \o i2,
         has_tab_indent |-> ln.start = "\t",
         has_space_indent |-> ln.start = " "]

\* What iterations lo..hi of the loop do to the counters, the list of issues
\* and the two flags: the iterations of the lower half, then those of the
\* upper half.
RECURSIVE StyleLoop(_, _, _)
StyleLoop(lines, lo, hi) ==
    IF lo > hi
    THEN [long |-> 0, trailing |-> 0, tabs |-> 0, issues |-> <<>>,
          has_tab_indent |-> FALSE, has_space_indent |-> FALSE]
    ELSE IF lo = hi THEN StyleStep(lines, lo)
    ELSE LET mid == (lo + hi) \div 2
             p == StyleLoop(lines, lo, mid)
             q == StyleLoop(lines, mid + 1, hi)
         IN  [long |-> p.long + q.long,
              trailing |-> p.trailing + q.trailing,
              tabs |-> p.tabs + q.tabs,
              issues |-> p.issues \o q.issues,
              has_tab_indent |-> p.has_tab_indent \/ q.has_tab_indent,
              has_space_indent |-> p.has_space_indent \/ q.has_space_indent]

style_check(src) ==
    LET lines == src.lines
        st == StyleLoop(lines, 1, Len(lines))
        mixed == st.has_tab_indent /\ st.has_space_indent
        issues == IF mixed
                  THEN Append(st.issues, Issue(<<>>, "MixedIndentation",
                                  <<"Both tabs and spaces used for indentation">>))
                  ELSE st.issues
    IN  [counts |-> [total_lines |-> Len(lines),
                     long_lines_gt_100 |-> st.long,
                     trailing_whitespace_lines |-> st.trailing,
                     tab_char_lines |-> st.tabs,
                     mixed_indentation |-> IF mixed THEN 1 ELSE 0],
         issues |-> Take(issues, IssueCap)]

(***************************************************************************)
(* risky_patterns (src/test.py 163-176)                                    *)
(***************************************************************************)
\* The dict `patterns`, in insertion order.
patterns ==
    << [pattern |-> "eval(", detail |-> "Use of eval()"],
       [pattern |-> "exec(", detail |-> "Use of exec()"],
       [pattern |-> "os.system", detail |-> "Shell execution via os.system"],
       [pattern |-> "subprocess.Popen", detail |-> "Process spawning via subprocess.Popen"],
       [pattern |-> "pickle.loads", detail |-> "Unsafe deserialization risk (pickle.loads)"],
       [pattern |-> "import *", detail |-> "Wildcard import reduces clarity"] >>

\* `key in source`
Contains(src, key) == \E i \in 1..Len(src.lines) : src.lines[i].text = key

\* How many times the substring occurs in the text.
Occurrences(src, key) == Cardinality({i \in 1..Len(src.lines) : src.lines[i].text = key})

RECURSIVE RiskLoop(_, _)
RiskLoop(src, k) ==
    IF k = 0 THEN <<>>
    ELSE LET flags == RiskLoop(src, k - 1)
         IN  IF Contains(src, patterns[k].pattern) THEN Append(flags, patterns[k]) ELSE flags

\* A slip: one flag per occurrence of a pattern instead of one per key.
RECURSIVE RiskLoopEachOccurrence(_, _)
RiskLoopEachOccurrence(src, k) ==
    IF k = 0 THEN <<>>
    ELSE RiskLoopEachOccurrence(src, k - 1)
             \o Repeat(patterns[k], Occurrences(src, patterns[k].pattern))

risky_patterns_each_occurrence(src) == [flags |-> RiskLoopEachOccurrence(src, Len(patterns))]

risky_patterns(src) == [flags |-> RiskLoop(src, Len(patterns))]

(***************************************************************************)
(* comment_stats (src/test.py 179-198)                                     *)
(***************************************************************************)
SampleSize == 8

RECURSIVE LStrip(_, _)
LStrip(s, chars) ==
    IF s # <<>> /\ Head(s) \in chars THEN LStrip(Tail(s), chars) ELSE s

RECURSIVE RStrip(_, _)
RStrip(s, chars) ==
    IF s # <<>> /\ s[Len(s)] \in chars THEN RStrip(SubSeq(s, 1, Len(s) - 1), chars) ELSE s

Blank == {" ", "\t"}

\* tok_str.lstrip("#").strip()
CommentText(tok) == RStrip(LStrip(LStrip(tok, {"#"}), Blank), Blank)

\* What the tokens of lines lo..hi append to `comments` (lines 183-185).
RECURSIVE TokenLoop(_, _, _)
TokenLoop(lines, lo, hi) ==
    IF lo > hi THEN <<>>
    ELSE IF lo = hi
    THEN IF lines[lo].comment # <<>> THEN <<CommentText(lines[lo].comment)>> ELSE <<>>
    ELSE LET mid == (lo + hi) \div 2
         IN  TokenLoop(lines, lo, mid) \o TokenLoop(lines, mid + 1, hi)

\* round(num / den, 4) in ten-thousandths, ties to even.
Round4(num, den) ==
    LET q == (num * 10000) \div den
        r == (num * 10000) % den
    IN  IF 2 * r > den \/ (2 * r = den /\ q % 2 = 1) THEN q + 1 ELSE q

\* A slip: the comments collected before the failure are kept.
comment_stats_keeping(src) ==
    LET lines == src.lines
        comments == TokenLoop(lines, 1, IF src.tok_error = 0 THEN Len(lines)
                                        ELSE src.tok_error - 1)
        total_lines == Max(1, Len(lines))
    IN  [comment_lines |-> Len(comments),
         total_lines |-> total_lines,
         comment_density |-> Round4(Len(comments), total_lines),
         sample_comments |-> Take(comments, SampleSize)]

comment_stats(src) ==
    LET lines == src.lines
        comments == IF src.tok_error = 0
                    THEN TokenLoop(lines, 1, Len(lines))
                    ELSE <<>>   \* except Exception: comments = []
        total_lines == Max(1, Len(lines))
    IN  [comment_lines |-> Len(comments),
         total_lines |-> total_lines,
         comment_density |-> Round4(Len(comments), total_lines),
         sample_comments |-> Take(comments, SampleSize)]

(***************************************************************************)
(* The parse tree.  A node is a record: kind is its ast class, name the    *)
(* identifier of a definition (a sequence of characters), has_doc and      *)
(* doc_len what ast.get_docstring finds, lineno its line, values the       *)
(* number of operands of a BoolOp, body its child nodes.                   *)
(***************************************************************************)
Node(kind, name, has_doc, lineno, values, body) ==
    [kind |-> kind, name |-> name, has_doc |-> has_doc, doc_len |-> IF has_doc THEN 12 ELSE 0,
     lineno |-> lineno, values |-> values, body |-> body]

FunctionKinds == {"FunctionDef", "AsyncFunctionDef"}

Lower == {"a", "b", "c", "d", "e", "f", "g", "h", "i", "j", "k", "l", "m",
          "n", "o", "p", "q", "r", "s", "t", "u", "v", "w", "x", "y", "z"}
Upper == {"A", "B", "C", "D", "E", "F", "G", "H", "I", "J", "K", "L", "M",
          "N", "O", "P", "Q", "R", "S", "T", "U", "V", "W", "X", "Y", "Z"}
Digit == {"0", "1", "2", "3", "4", "5", "6", "7", "8", "9"}

AllIn(s, chars) == \A i \in 1..Len(s) : s[i] \in chars

\* SNAKE_CASE_RE = ^[a-z_][a-z0-9_]*$ and PASCAL_CASE_RE = ^[A-Z][A-Za-z0-9]*$
SNAKE_CASE_RE(name) ==
    /\ name # <<>>
    /\ Head(name) \in Lower \cup {"_"}
    /\ AllIn(Tail(name), Lower \cup Digit \cup {"_"})

PASCAL_CASE_RE(name) ==
    /\ name # <<>>
    /\ Head(name) \in Upper
    /\ AllIn(Tail(name), Upper \cup Lower \cup Digit)

\* A slip: the underscore exemption never applies.
StartsWithNever(name, prefix) == FALSE

StartsWith(name, prefix) ==
    Len(name) >= Len(prefix) /\ SubSeq(name, 1, Len(prefix)) = prefix

EndsWith(name, suffix) ==
    Len(name) >= Len(suffix) /\ SubSeq(name, Len(name) - Len(suffix) + 1, Len(name)) = suffix

(***************************************************************************)
(* ComplexityVisitor (src/test.py 201-224)                                 *)
(***************************************************************************)
RECURSIVE ConcatAll(_)
ConcatAll(seqs) == IF seqs = <<>> THEN <<>> ELSE Head(seqs) \o ConcatAll(Tail(seqs))

\* ast.walk(node): the node and all its descendants.
RECURSIVE Walk(_)
Walk(node) == <<node>> \o ConcatAll([i \in 1..Len(node.body) |-> Walk(node.body[i])])

CountedKinds == {"If", "For", "While", "With", "AsyncWith", "Try", "ExceptHandler"}

\* What one node adds to `inc` (lines 218-223).
Increment(n) ==
    IF n.kind \in CountedKinds THEN 1
    ELSE IF n.kind = "BoolOp" THEN Max(1, n.values - 1)
    ELSE IF n.kind = "Match" THEN 1
    ELSE 0

RECURSIVE SumIncrements(_)
SumIncrements(nodes) ==
    IF nodes = <<>> THEN 0 ELSE Increment(Head(nodes)) + SumIncrements(Tail(nodes))

\* A slip: the walk stops at nested function definitions, so a function is
\* scored on its own statements only.
RECURSIVE WalkOwnScope(_)
WalkOwnScope(node) ==
    <<node>> \o ConcatAll([i \in 1..Len(node.body) |->
                              IF node.body[i].kind \in FunctionKinds THEN <<>>
                              ELSE WalkOwnScope(node.body[i])])

_complexity_of_own_scope(fn) == 1 + SumIncrements(WalkOwnScope(fn))

_complexity_of(fn) == 1 + SumIncrements(Walk(fn))

\* visit(node): the entries appended to function_complexities, in order.
RECURSIVE Visit(_)
Visit(node) ==
    LET below == ConcatAll([i \in 1..Len(node.body) |-> Visit(node.body[i])])
    IN  IF node.kind \in FunctionKinds
        THEN <<[name |-> node.name, lineno |-> node.lineno,
                complexity |-> _complexity_of(node)]>> \o below
        ELSE below

\* sorted(comps, key=complexity, reverse=True): stable insertion of each
\* entry after the entries that are not smaller.
\* A slip: an entry goes in front of the entries of equal complexity.
RECURSIVE InsertSortedUnstable(_, _)
InsertSortedUnstable(sorted, x) ==
    IF sorted = <<>> THEN <<x>>
    ELSE IF Head(sorted).complexity > x.complexity
         THEN <<Head(sorted)>> \o InsertSortedUnstable(Tail(sorted), x)
         ELSE <<x>> \o sorted

RECURSIVE InsertSorted(_, _)
InsertSorted(sorted, x) ==
    IF sorted = <<>> THEN <<x>>
    ELSE IF Head(sorted).complexity >= x.complexity
         THEN <<Head(sorted)>> \o InsertSorted(Tail(sorted), x)
         ELSE <<x>> \o sorted

RECURSIVE SortedByComplexity(_, _)
SortedByComplexity(comps, k) ==
    IF k = 0 THEN <<>> ELSE InsertSorted(SortedByComplexity(comps, k - 1), comps[k])

TopN == 5

(***************************************************************************)
(* docstrings_and_naming (src/test.py 227-258)                             *)
(***************************************************************************)
\* fn_info, cls_info and naming_issues after the first k nodes of tree.body.
RECURSIVE BodyLoop(_, _)
BodyLoop(body, k) ==
    IF k = 0 THEN [functions |-> <<>>, classes |-> <<>>, naming_issues |-> <<>>]
    ELSE LET p == BodyLoop(body, k - 1)
             node == body[k]
             info == [name |-> node.name, lineno |-> node.lineno, has_docstring |-> node.has_doc]
         IN  IF node.kind \in FunctionKinds
             THEN [p EXCEPT !.functions = Append(@, info),
                            !.naming_issues =
                                IF /\ ~(\/ StartsWith(node.name, <<"_">>)
                                        \/ (StartsWith(node.name, <<"_", "_">>)
                                            /\ EndsWith(node.name, <<"_", "_">>)))
                                   /\ ~SNAKE_CASE_RE(node.name)
                                THEN Append(@, [type |-> "FunctionNameNotSnakeCase",
                                                name |-> node.name, lineno |-> node.lineno])
                                ELSE @]
             ELSE IF node.kind = "ClassDef"
             THEN [p EXCEPT !.classes = Append(@, info),
                            !.naming_issues =
                                IF ~StartsWith(node.name, <<"_">>) /\ ~PASCAL_CASE_RE(node.name)
                                THEN Append(@, [type |-> "ClassNameNotPascalCase",
                                                name |-> node.name, lineno |-> node.lineno])
                                ELSE @]
             ELSE p

CountMissing(infos) == Cardinality({i \in 1..Len(infos) : ~infos[i].has_docstring})

docstrings_and_naming(tree) ==
    LET r == BodyLoop(tree.body, Len(tree.body))
    IN  [module_has_docstring |-> tree.has_doc,
         module_docstring_length |-> tree.doc_len,
         functions |-> r.functions,
         classes |-> r.classes,
         missing_function_docstrings |-> CountMissing(r.functions),
         missing_class_docstrings |-> CountMissing(r.classes),
         naming_issues |-> r.naming_issues]

(***************************************************************************)
(* static_analysis (src/test.py 261-293), applied to the text read.        *)
(***************************************************************************)
ast_block(src, syn) ==
    IF ~syn.ok THEN [ok |-> FALSE, error |-> "Skipped due to syntax error."]
    ELSE IF src.ast_raises THEN [ok |-> FALSE, error |-> "str(e)"]
    ELSE LET comps == Visit(src.tree)
             comps_sorted == SortedByComplexity(comps, Len(comps))
         IN  [ok |-> TRUE,
              docstrings_naming |-> docstrings_and_naming(src.tree),
              complexity_top5 |-> Take(comps_sorted, TopN),
              complexity_all |-> comps_sorted]

static_analysis(src) ==
    LET syn == syntax_check(src)
    IN  IF syn.raised THEN syn
        ELSE Returned([syntax |-> syn.value,
                       style |-> style_check(src),
                       risky_patterns |-> risky_patterns(src),
                       comments |-> comment_stats(src),
                       ast |-> ast_block(src, syn.value)])

(***************************************************************************)
(* RunResult and safe_run (src/test.py 62-107).  A captured stream is a    *)
(* record: kind "str" or "bytes", its length, and whether it contains the  *)
(* text ModuleNotFoundError.  `seconds` is not modelled.                   *)
(***************************************************************************)
Str(length, mnf) == [kind |-> "str", length |-> length, mnf |-> mnf]
Bytes(length, mnf) == [kind |-> "bytes", length |-> length, mnf |-> mnf]

RunResult(ok, returncode, stdout, stderr, timed_out) ==
    [ok |-> ok, returncode |-> returncode, stdout |-> stdout, stderr |-> stderr,
     timed_out |-> timed_out]

\* `x or default` for a captured stream x.
OrElse(x, default) == IF x = None \/ x.length = 0 THEN default ELSE x

TimeoutCode == 124

\* Lines 89-97: subprocess.run returned the completed process p.
ResultOfExit(returncode, stdout, stderr) ==
    RunResult(returncode = 0, returncode, OrElse(stdout, Str(0, FALSE)),
              OrElse(stderr, Str(0, FALSE)), FALSE)

\* A slip: the timeout is reported like any other failure.
ResultOfTimeoutUnflagged(e_stdout, e_stderr) ==
    RunResult(FALSE, 1, OrElse(e_stdout, Str(0, FALSE)),
              OrElse(e_stderr, Str(18, FALSE)), FALSE)

\* Lines 98-107: subprocess.run raised TimeoutExpired e.
ResultOfTimeout(e_stdout, e_stderr) ==
    RunResult(FALSE, TimeoutCode, OrElse(e_stdout, Str(0, FALSE)),
              OrElse(e_stderr, Str(18, FALSE)), TRUE)

(***************************************************************************)
(* run_basic_unit_test (src/test.py 316-350): the retry decision and the   *)
(* returned dict.                                                          *)
(***************************************************************************)
cmd1 == <<"sys.executable", "-I", "-m", "unittest", "discover", "-v">>
cmd2 == <<"sys.executable", "-m", "unittest", "discover", "-v">>

TailLimit == 20000

\* s[-20000:]
TailOf(s) == [s EXCEPT !.length = Min(@, TailLimit)]

\* (not r1.ok) and ("ModuleNotFoundError" in (r1.stderr + r1.stdout)):
\* "retry", "keep", or "TypeError" when str and bytes meet in the + or the `in`.
RetryDecision(first) ==
    IF first.ok THEN "keep"
    ELSE IF first.stderr.kind # first.stdout.kind \/ first.stderr.kind = "bytes" THEN "TypeError"
    ELSE IF first.stderr.mnf \/ first.stdout.mnf THEN "retry"
    ELSE "keep"

\* The dict of lines 342-350.
TestRep(rr, used_cmd) ==
    [ok |-> rr.ok, returncode |-> rr.returncode, timed_out |-> rr.timed_out,
     command |-> used_cmd, stdout |-> TailOf(rr.stdout), stderr |-> TailOf(rr.stderr)]

(***************************************************************************)
(* verdict (src/test.py 353-400)                                           *)
(***************************************************************************)
\* A note: the fixed text and the numbers the f-string formats into it.
Note(text, args) == [text |-> text, args |-> args]

NoteSyntax == Note("Syntax error: the file does not compile.", <<>>)
NoteMixed == Note("Mixed indentation (tabs + spaces).", <<>>)
NoteLong(ll) == Note("{ll} long lines (> 100 chars).", <<ll>>)
NoteRisky(n) == Note("Risky patterns detected: {len(risky)} hit(s).", <<n>>)
NoteModuleDoc == Note("Missing module docstring.", <<>>)
NoteFnDoc(mfd) == Note("{mfd} function(s) missing docstrings.", <<mfd>>)
NoteNaming(n) == Note("Naming convention issues: {len(naming_issues)} item(s).", <<n>>)
NoteFailed == Note("Unit test failed (or crashed).", <<>>)
NoteTimedOut == Note("Unit test timed out.", <<>>)

\* A rounding slip: one point per started ten of long lines.
LongLineDeductionCeil(ll) == Min(10, (ll + 9) \div 10)

\* min(10, ll // 10 + 1)  (line 368)
LongLineDeduction(ll) == Min(10, (ll \div 10) + 1)

\* One `if` of verdict: does it trigger, what it subtracts, what it appends.
Rule(cond, ded, note) == [cond |-> cond, ded |-> ded, note |-> note]

\* A slip: the docstring and naming rules are not inside the test of
\* static_rep["ast"].get("ok"); a missing report reads as its defaults.
VerdictRulesUngated(srep, trep) ==
    LET counts == srep.style.counts
        ll == counts.long_lines_gt_100
        risky == srep.risky_patterns.flags
        ds == IF srep.ast.ok THEN srep.ast.docstrings_naming
              ELSE [module_has_docstring |-> FALSE, missing_function_docstrings |-> 0,
                    naming_issues |-> <<>>]
        mfd == ds.missing_function_docstrings
        nis == Len(ds.naming_issues)
    IN  << Rule(~srep.syntax.ok, 80, NoteSyntax),
           Rule(counts.mixed_indentation # 0, 10, NoteMixed),
           Rule(ll # 0, LongLineDeduction(ll), NoteLong(ll)),
           Rule(Len(risky) # 0, Min(25, 5 * Len(risky)), NoteRisky(Len(risky))),
           Rule(~ds.module_has_docstring, 5, NoteModuleDoc),
           Rule(mfd # 0, Min(10, mfd), NoteFnDoc(mfd)),
           Rule(nis # 0, Min(10, nis), NoteNaming(nis)),
           Rule(trep # None /\ ~trep.ok, 30, NoteFailed),
           Rule(trep # None /\ trep.timed_out, 20, NoteTimedOut) >>

\* The `if` statements of verdict in the order the function executes them.
\* The three docstring/naming rules sit inside `if static_rep["ast"].get("ok")`.
VerdictRules(srep, trep) ==
    LET counts == srep.style.counts
        ll == counts.long_lines_gt_100
        risky == srep.risky_patterns.flags
        astok == srep.ast.ok
        ds == srep.ast.docstrings_naming
        mfd == IF astok THEN ds.missing_function_docstrings ELSE 0
        nis == IF astok THEN Len(ds.naming_issues) ELSE 0
    IN  << Rule(~srep.syntax.ok, 80, NoteSyntax),
           Rule(counts.mixed_indentation # 0, 10, NoteMixed),
           Rule(ll # 0, LongLineDeduction(ll), NoteLong(ll)),
           Rule(Len(risky) # 0, Min(25, 5 * Len(risky)), NoteRisky(Len(risky))),
           Rule(astok /\ ~ds.module_has_docstring, 5, NoteModuleDoc),
           Rule(astok /\ mfd # 0, Min(10, mfd), NoteFnDoc(mfd)),
           Rule(astok /\ nis # 0, Min(10, nis), NoteNaming(nis)),
           Rule(trep # None /\ ~trep.ok, 30, NoteFailed),
           Rule(trep # None /\ trep.timed_out, 20, NoteTimedOut) >>

\* A slip: each note is put in front of the list instead of at its end.
RECURSIVE RunRulesPrepend(_, _)
RunRulesPrepend(rules, k) ==
    IF k = 0 THEN [score |-> 100, notes |-> <<>>]
    ELSE LET prev == RunRulesPrepend(rules, k - 1)
             r == rules[k]
         IN  IF r.cond
             THEN [score |-> prev.score - r.ded, notes |-> <<r.note>> \o prev.notes]
             ELSE prev

\* score and notes after the first k rules ran (lines 354-396).
RECURSIVE RunRules(_, _)
RunRules(rules, k) ==
    IF k = 0 THEN [score |-> 100, notes |-> <<>>]
    ELSE LET prev == RunRules(rules, k - 1)
             r == rules[k]
         IN  IF r.cond
             THEN [score |-> prev.score - r.ded, notes |-> Append(prev.notes, r.note)]
             ELSE prev

\* A slip: the lower clamp is forgotten.
ClampScoreUpperOnly(score) == Min(100, score)

\* score = max(0, min(100, score))  (line 398)
ClampScore(score) == Max(0, Min(100, score))

\* The conditional expression of line 399.
LevelOf(score) ==
    IF score >= 90 THEN "Excellent"
    ELSE IF score >= 75 THEN "Good"
    ELSE IF score >= 55 THEN "Fair"
    ELSE "Poor"

\* The value of `score` when line 398 is reached.
RawScore(srep, trep) ==
    LET rules == VerdictRules(srep, trep) IN RunRules(rules, Len(rules)).score

\* A slip: a module-level counter of earlier calls leaks into the score.
verdict_remembering(srep, trep) ==
    LET rules == VerdictRules(srep, trep)
        out == RunRules(rules, Len(rules))
        score == ClampScore(out.score - (runs - 1))
    IN  [score |-> score, level |-> LevelOf(score), notes |-> out.notes]

verdict(srep, trep) ==
    LET rules == VerdictRules(srep, trep)
        out == RunRules(rules, Len(rules))
        score == ClampScore(out.score)
    IN  [score |-> score, level |-> LevelOf(score), notes |-> out.notes]

(***************************************************************************)
(* The bounded set of source texts.                                        *)
(***************************************************************************)
TabLine == Line("\t", 10, FALSE, TRUE, "plain", <<>>)
SpaceLine == Line(" ", 10, FALSE, FALSE, "plain", <<>>)
LongLine == Line("x", LongLineLimit + 1, FALSE, FALSE, "plain", <<>>)
RiskLine(key) == Line("x", 10, FALSE, FALSE, key, <<>>)

MakeLines(mixed, ll, keys) ==
    (IF mixed THEN <<TabLine, SpaceLine>> ELSE <<>>)
        \o Repeat(LongLine, ll)
        \o [i \in 1..Len(keys) |-> RiskLine(keys[i])]
        \o <<PlainLine>>

my_func == <<"m", "y", "_", "f", "u", "n", "c">>
MyFunction == <<"M", "y", "F", "u", "n", "c", "t", "i", "o", "n">>
Helper == <<"_", "H", "e", "l", "p", "e", "r">>
lower_class == <<"s", "h", "a", "p", "e">>

Module(has_doc, body) == Node("Module", <<>>, has_doc, 0, 0, body)

\* nUndoc functions without a docstring, nBad badly named definitions
\* (functions and classes in turn), one documented snake-case function.
MakeTree(has_doc, nUndoc, nBad) ==
    Module(has_doc,
           [i \in 1..nUndoc |-> Node("FunctionDef", my_func, FALSE, i, 0, <<>>)]
           \o [i \in 1..nBad |->
                  IF i % 2 = 1
                  THEN Node("FunctionDef", MyFunction, TRUE, nUndoc + i, 0, <<>>)
                  ELSE Node("ClassDef", lower_class, TRUE, nUndoc + i, 0, <<>>)]
           \o <<Node("AsyncFunctionDef", Helper, TRUE, nUndoc + nBad + 1, 0, <<>>)>>)

MakeSource(compiles, lines, tree, ast_raises) ==
    [compiles |-> compiles, lines |-> lines, tok_error |-> 0, tree |-> tree,
     ast_raises |-> ast_raises]

PatternPrefix(k) == [i \in 1..k |-> patterns[i].pattern]

LongLineCounts == (0..MaxCount) \cup {9, 10, 15, 90}
DefinitionCounts == (0..MaxCount) \cup {10, 11}
RiskTexts ==
    {PatternPrefix(k) : k \in 0..Len(patterns)}
        \cup {Repeat(key, n) : key \in {"os.system", "import *"}, n \in 1..MaxCount}

LineSets == {MakeLines(mixed, ll, keys) : mixed \in BOOLEAN, ll \in LongLineCounts, keys \in RiskTexts}
Trees == {MakeTree(d, u, b) : d \in BOOLEAN, u \in DefinitionCounts, b \in DefinitionCounts}
NoTree == Module(FALSE, <<>>)

\* Names of definitions: conforming, violating and exempt ones.
f2 == <<"f", "2">>
camelCase == <<"c", "a", "m", "e", "l", "C", "a", "s", "e">>
dunder_Main == <<"_", "_", "M", "a", "i", "n", "_", "_">>
Shape == <<"S", "h", "a", "p", "e">>
Shape_2 == <<"S", "h", "a", "p", "e", "_", "2">>
private_shape == <<"_", "s", "h", "a", "p", "e">>

\* A class whose method is badly named: only tree.body is looked at.
ClassWithMethod(lineno) ==
    Node("ClassDef", Shape, TRUE, lineno, 0,
         <<Node("FunctionDef", MyFunction, TRUE, lineno + 1, 0, <<>>)>>)

NamedDefinitions(lineno) ==
    {Node(kind, name, TRUE, lineno, 0, <<>>) :
        kind \in FunctionKinds \cup {"ClassDef"},
        name \in {my_func, f2, MyFunction, camelCase, Helper, dunder_Main,
                  Shape, Shape_2, lower_class, private_shape}}
        \cup {ClassWithMethod(lineno)}

\* Documented modules of two definitions.
NamingTrees == {Module(TRUE, <<a, b>>) : a \in NamedDefinitions(1), b \in NamedDefinitions(3)}

\* Statements that count for the complexity, and definitions at several
\* depths: plain functions with 0..MaxCount branches, an async function with
\* a three-operand condition, a function inside a function, a class with two
\* methods, a function inside an if.  lineno is the line of the definition.
IfStmt(body) == Node("If", <<>>, FALSE, 0, 0, body)
BoolOp3 == Node("BoolOp", <<>>, FALSE, 0, 3, <<>>)

Fn(kind, lineno, branches, inner) ==
    Node(kind, my_func, TRUE, lineno, 0, Repeat(IfStmt(<<>>), branches) \o inner)

NestedDefinitions(lineno) ==
    {Fn("FunctionDef", lineno, n, <<>>) : n \in 0..MaxCount}
        \cup {Fn("AsyncFunctionDef", lineno, 0, <<IfStmt(<<BoolOp3>>)>>),
              Fn("FunctionDef", lineno, 0, <<Fn("FunctionDef", lineno + 1, 1, <<>>)>>),
              Node("ClassDef", Shape, TRUE, lineno, 0,
                   <<Fn("FunctionDef", lineno + 1, 1, <<>>),
                     Fn("AsyncFunctionDef", lineno + 2, 0, <<>>)>>),
              IfStmt(<<Fn("FunctionDef", lineno + 1, 0, <<>>)>>)}

ComplexityTrees ==
    {Module(TRUE, <<a, b, c>>) :
        a \in NestedDefinitions(10), b \in NestedDefinitions(20), c \in NestedDefinitions(30)}

\* One function whose body is a single statement or expression of every kind
\* the walk can meet: the kinds the visitor tests for, an asynchronous for, a
\* try with except*, a conditional expression, a pass, and boolean
\* operations of 2..MaxCount + 2 operands.
StatementKinds ==
    {"If", "For", "While", "AsyncFor", "With", "AsyncWith", "Try", "TryStar",
     "ExceptHandler", "Match", "IfExp", "Pass"}

Stmt(kind) == Node(kind, <<>>, FALSE, 0, 0, <<>>)

BoolOp(n) == Node("BoolOp", <<>>, FALSE, 0, n, <<>>)

ControlTrees ==
    {Module(TRUE, <<Fn("FunctionDef", 10, 0, <<s>>)>>) :
        s \in {Stmt(k) : k \in StatementKinds} \cup {BoolOp(n) : n \in 2..(MaxCount + 2)}}

\* A function with one branch of its own that holds a class, whose method
\* holds a function with 0..MaxCount branches: three definitions, each inside
\* the one before.
DeeplyNested(lineno, branches) ==
    Fn("FunctionDef", lineno, 1,
       <<Node("ClassDef", Shape, TRUE, lineno + 1, 0,
              <<Fn("AsyncFunctionDef", lineno + 2, 0,
                   <<Fn("FunctionDef", lineno + 3, branches, <<>>)>>)>>)>>)

NestingTrees == {Module(TRUE, <<DeeplyNested(10, n)>>) : n \in 0..MaxCount}

\* Texts with mixed indentation whose lines yield one issue fewer than the
\* cap, as many as the cap, and two issues per line.
LongTrailingLine == Line("x", LongLineLimit + 1, TRUE, FALSE, "plain", <<>>)

ManyIssueLines ==
    {<<TabLine, SpaceLine>> \o Repeat(LongLine, n) : n \in {IssueCap - 1, IssueCap}}
        \cup {<<TabLine, SpaceLine>> \o Repeat(LongTrailingLine, IssueCap \div 2),
              <<TabLine, SpaceLine, LongTrailingLine, PlainLine>>}

\* "# one " on a line of its own.
CommentLine == Line("#", 7, FALSE, FALSE, "plain", <<"#", " ", "o", "n", "e", " ">>)

CommentCounts == (0..MaxCount) \cup {SampleSize + 1}

\* nc comment lines and two lines of code; tokenize raises at line tok_error
\* (an unterminated string, a dedent that matches no outer level), and then
\* compile() raises SyntaxError as well.
CommentedSources ==
    {[compiles |-> IF k = 0 THEN "ok" ELSE "SyntaxError",
      lines |-> Repeat(CommentLine, nc) \o <<PlainLine, PlainLine>>,
      tok_error |-> k,
      tree |-> IF k = 0 THEN MakeTree(TRUE, 0, 0) ELSE NoTree,
      ast_raises |-> FALSE] : nc \in CommentCounts, k \in 0..(SampleSize + 3)}

Sources ==
    {MakeSource("ok", l, t, FALSE) : l \in LineSets, t \in Trees}
        \cup {MakeSource(c, l, NoTree, c = "ok") : c \in CompileOutcomes, l \in LineSets}
        \cup {MakeSource("ok", <<PlainLine>>, t, FALSE) : t \in NamingTrees}
        \cup {src \in CommentedSources : src.tok_error <= Len(src.lines)}
        \cup {MakeSource("ok", l, MakeTree(TRUE, 0, 0), FALSE) : l \in ManyIssueLines}
        \cup {MakeSource("ok", <<PlainLine>>, t, FALSE) : t \in ComplexityTrees}
        \cup {MakeSource("ok", <<PlainLine>>, t, FALSE) : t \in ControlTrees}
        \cup {MakeSource("ok", <<PlainLine>>, t, FALSE) : t \in NestingTrees}

\* The results safe_run can return, and the dicts run_basic_unit_test can
\* return for them.
RunResults ==
    {ResultOfExit(rc, Str(0, FALSE), Str(40, m)) : rc \in {0, 1}, m \in BOOLEAN}
        \cup {ResultOfTimeout(None, None), ResultOfTimeout(Str(40, FALSE), Str(40, TRUE))}

SandboxResults ==
    {TestRep(rr, cmd1) : rr \in {r \in RunResults : RetryDecision(r) = "keep"}}
        \cup {TestRep(rr, cmd2) : rr \in RunResults}

(***************************************************************************)
(* SpecStatic: static_analysis, then verdict, applied to one source text.  *)
(* test_rep is None when the syntax check failed and any result of the     *)
(* sandbox run otherwise (_run_checks_thread, lines 678-684).              *)
(***************************************************************************)
workVars == <<source, static_rep, test_rep, v, pc>>
appVars == <<program_path, is_running, buttons, status, output, after_queue, runs>>
runVars == <<e, platform, td, children, r1, r2>>
calcVars == <<expr, result>>
vars == <<workVars, appVars, runVars, calcVars>>

NoPath == "None"
Unbound == "unbound"
Platforms == {"posix", "win32"}

LogLine(text, args) == [text |-> text, args |-> args]

\* ProgramTesterApp.__init__ and _build_ui (src/test.py 500-623).
InitApp ==
    /\ program_path = NoPath
    /\ is_running = FALSE
    /\ buttons = [upload |-> "normal", test |-> "disabled", info |-> "normal"]
    /\ status = "Ready."
    /\ output = <<LogLine("Ready. Upload a Python file to begin.", <<>>)>>
    /\ after_queue = <<>>
    /\ runs = 0
    /\ e = Unbound
    /\ td = FALSE
    /\ children = <<>>
    /\ r1 = None
    /\ r2 = None

\* The calculator is not in use.
NoCalculator ==
    /\ expr = <<>>
    /\ result = None


InitStatic ==
    /\ source \in Sources
    /\ static_rep = None
    /\ test_rep = None
    /\ v = None
    /\ pc = "static_analysis"
    /\ platform = "posix"
    /\ InitApp
    /\ NoCalculator

ApplyStaticAnalysis ==
    /\ UNCHANGED calcVars
    /\ pc = "static_analysis"
    /\ LET r == static_analysis(source)
       IN  IF r.raised
           THEN /\ pc' = "raised"
                /\ UNCHANGED static_rep
           ELSE /\ pc' = "unit_test"
                /\ static_rep' = r.value
    /\ UNCHANGED <<source, test_rep, v, appVars, runVars>>

ApplyUnitTest ==
    /\ UNCHANGED calcVars
    /\ pc = "unit_test"
    /\ IF static_rep.syntax.ok
       THEN \E tr \in SandboxResults : test_rep' = tr
       ELSE test_rep' = None
    /\ pc' = "verdict"
    /\ UNCHANGED <<source, static_rep, v, appVars, runVars>>

ApplyVerdict ==
    /\ UNCHANGED calcVars
    /\ pc = "verdict"
    /\ v' = verdict(static_rep, test_rep)
    /\ pc' = "done"
    /\ UNCHANGED <<source, static_rep, test_rep, appVars, runVars>>

NextStatic == ApplyStaticAnalysis \/ ApplyUnitTest \/ ApplyVerdict

SpecStatic == InitStatic /\ [][NextStatic]_vars

(***************************************************************************)
(* The application (src/test.py 499-772).                                  *)
(***************************************************************************)
FilePaths == {"a.py", "b.py"}

\* The texts a selected file may hold when the worker reads it: a clean and
\* a faulty text for each outcome of compile(), and a clean text on which the
\* tree walk raises.
FileTexts ==
    {MakeSource(c, MakeLines(q, IF q THEN 1 ELSE 0, IF q THEN PatternPrefix(2) ELSE <<>>),
                MakeTree(~q, IF q THEN 1 ELSE 0, IF q THEN 1 ELSE 0), FALSE) :
         c \in CompileOutcomes, q \in BOOLEAN}
        \cup {MakeSource("ok", MakeLines(FALSE, 0, <<>>), MakeTree(TRUE, 0, 0), TRUE)}

\* _set_running (lines 629-642): is_running, the buttons and the status.
\* A slip: _set_running only updates the status line; the flag and the
\* buttons stay as they were.
SetRunningStatusOnly(running) ==
    /\ status' = IF running THEN "Running..." ELSE "Ready."
    /\ UNCHANGED <<is_running, buttons>>

SetRunning(running) ==
    /\ is_running' = running
    /\ buttons' = IF running
                  THEN [upload |-> "disabled", test |-> "disabled", info |-> "disabled"]
                  ELSE [upload |-> "normal", info |-> "normal",
                        test |-> IF program_path # NoPath THEN "normal" ELSE "disabled"]
    /\ status' = IF running THEN "Running..." ELSE "Ready."

Selected(out) == Cardinality({i \in 1..Len(out) : out[i].text = "Selected file:"})

\* on_upload (lines 644-654); fp = "" when the dialog is cancelled.
OnUpload ==
    /\ UNCHANGED calcVars
    /\ buttons.upload = "normal"
    /\ Selected(output) < MaxUploads
    /\ runs < MaxRuns
    /\ \E fp \in FilePaths \cup {""} :
          IF fp = ""
          THEN UNCHANGED <<program_path, buttons, output>>
          ELSE /\ program_path' = fp
               /\ buttons' = [buttons EXCEPT !.test = "normal"]
               /\ output' = Append(output, LogLine("Selected file:", <<fp>>))
    /\ UNCHANGED <<workVars, is_running, status, after_queue, runs, runVars>>

\* on_info (lines 656-657): a message box.
OnInfo ==
    /\ buttons.info = "normal"
    /\ UNCHANGED vars

\* on_test (lines 659-671); exists is what program_path.exists() answers.
OnTest ==
    /\ UNCHANGED calcVars
    /\ buttons.test = "normal"
    /\ runs < MaxRuns
    /\ \E exists \in BOOLEAN :
          IF program_path = NoPath \/ ~exists
          THEN UNCHANGED vars                   \* messagebox.showerror
          ELSE IF is_running
          THEN UNCHANGED vars
          ELSE /\ SetRunning(TRUE)
               /\ output' = <<LogLine("Testing started.", <<>>)>>
               /\ pc' = "static_analysis"       \* Thread(...).start()
               /\ runs' = runs + 1
               /\ source' = None
               /\ static_rep' = None
               /\ test_rep' = None
               /\ v' = None
               /\ e' = Unbound
               /\ td' = FALSE
               /\ children' = <<>>
               /\ r1' = None
               /\ r2' = None
               /\ UNCHANGED <<program_path, after_queue, platform>>

(***************************************************************************)
(* _run_checks_thread (lines 673-690), the worker thread.                  *)
(***************************************************************************)
\* A mutation: the unit test runs whatever the syntax check said.
SandboxGateAlways(srep) == TRUE

\* if static_rep["syntax"]["ok"]  (line 681)
SandboxGate(srep) == srep.syntax.ok

\* Entering `except Exception as e`.
Except(exc) ==
    /\ e' = exc
    /\ pc' = "except_log"

\* Lines 675-681: read the file, analyse it, decide on the unit test.
\* read_text raises OSError when the file cannot be read.
W_StaticAnalysis ==
    /\ UNCHANGED calcVars
    /\ pc = "static_analysis"
    /\ \/ /\ Except("OSError")
          /\ UNCHANGED <<source, static_rep>>
       \/ \E src \in FileTexts :
             LET r == static_analysis(src)
             IN  /\ source' = src
                 /\ IF r.raised
                    THEN /\ Except(r.exc)
                         /\ UNCHANGED static_rep
                    ELSE /\ static_rep' = r.value
                         /\ pc' = IF SandboxGate(r.value) THEN "stage" ELSE "verdict"
                         /\ UNCHANGED e
    /\ UNCHANGED <<test_rep, v, appVars, platform, td, children, r1, r2>>

(***************************************************************************)
(* run_basic_unit_test (lines 316-350) and the child processes.            *)
(***************************************************************************)
\* Lines 321-328: create the directory, copy the file, write the test.  A
\* failure of copy2 or write_text leaves the with block, which removes the
\* directory.
W_Stage ==
    /\ UNCHANGED calcVars
    /\ pc = "stage"
    /\ \E failing \in {"none", "mkdtemp", "copy2", "write_text"} :
          IF failing = "none"
          THEN /\ td' = TRUE
               /\ pc' = "launch1"
               /\ UNCHANGED e
          ELSE /\ td' = FALSE
               /\ Except("OSError")
    /\ UNCHANGED <<source, static_rep, test_rep, v, appVars, platform, children, r1, r2>>

\* A child process: its command line, whether it runs, how it ended, whether
\* its output holds the text ModuleNotFoundError apart from a traceback of
\* that error, and its own child processes ("none", "piped" when one is alive and
\* holds the captured pipes, "detached" when one is alive without them).
Child(cmd) ==
    [cmd |-> cmd, state |-> "running", cause |-> "", returncode |-> 0,
     mentions |-> FALSE, timed_out |-> FALSE, desc |-> "none"]

\* Line 331: subprocess.run starts the isolated invocation.
W_Launch1 ==
    /\ UNCHANGED calcVars
    /\ pc = "launch1"
    /\ children' = Append(children, Child(cmd1))
    /\ pc' = "wait1"
    /\ UNCHANGED <<source, static_rep, test_rep, v, appVars, e, platform, td, r1, r2>>

Causes == {"pass", "module_not_found", "assertion", "crash"}

\* The uploaded module starts a process of its own.
ChildSpawn ==
    /\ UNCHANGED calcVars
    /\ \E k \in 1..Len(children), d \in {"piped", "detached"} :
          /\ children[k].state = "running"
          /\ children[k].desc = "none"
          /\ children' = [children EXCEPT ![k].desc = d]
    /\ UNCHANGED <<workVars, appVars, e, platform, td, r1, r2>>

\* The test run ends by itself: both tests pass, the import cannot find a
\* module, an assertion of the smoke test fails, or the import raises
\* something else.  A module that fails in these last two ways may have
\* printed the text ModuleNotFoundError.
ChildExit ==
    /\ UNCHANGED calcVars
    /\ \E k \in 1..Len(children), cause \in Causes, mentions \in BOOLEAN :
          /\ children[k].state = "running"
          /\ mentions => cause \in {"assertion", "crash"}
          /\ children' = [children EXCEPT
                ![k].state = "exited",
                ![k].cause = cause,
                ![k].returncode = IF cause = "pass" THEN 0 ELSE 1,
                ![k].mentions = mentions]
    /\ UNCHANGED <<workVars, appVars, e, platform, td, r1, r2>>

\* What the pipes of an exited child delivered: the module's prints on
\* stdout, the report of unittest on stderr (long after a crash).
StdoutOf(child) == Str(IF child.mentions THEN 40 ELSE 0, child.mentions)
StderrOf(child) ==
    Str(IF child.cause = "crash" THEN TailLimit + 1 ELSE 40, child.cause = "module_not_found")

\* A process the module started ends.
DescExit ==
    /\ UNCHANGED calcVars
    /\ \E k \in 1..Len(children) :
          /\ children[k].desc # "none"
          /\ children' = [children EXCEPT ![k].desc = "none"]
    /\ UNCHANGED <<workVars, appVars, e, platform, td, r1, r2>>

Waiting(k) == pc = IF k = 1 THEN "wait1" ELSE "wait2"
Draining(k) == pc = IF k = 1 THEN "drain1" ELSE "drain2"
AfterRun(k) == IF k = 1 THEN "decide" ELSE "return"

SetResult(k, rr) ==
    /\ IF k = 1 THEN r1' = rr /\ UNCHANGED r2 ELSE r2' = rr /\ UNCHANGED r1
    /\ pc' = AfterRun(k)

\* safe_run lines 82-97: communicate() returns once the child has exited and
\* nobody holds the pipes any longer.
W_Completed ==
    /\ UNCHANGED calcVars
    /\ \E k \in 1..Len(children) :
          /\ Waiting(k)
          /\ children[k].state = "exited"
          /\ children[k].desc # "piped"
          /\ SetResult(k, ResultOfExit(children[k].returncode, StdoutOf(children[k]),
                                       StderrOf(children[k])))
    /\ UNCHANGED <<source, static_rep, test_rep, v, appVars, e, platform, td, children>>

\* The timeout expires while communicate() waits: subprocess.run kills the
\* child.  On POSIX it then waits for the child only and re-raises with what
\* was read so far, as bytes or None; safe_run lines 98-107 build the result.
\* On Windows it calls communicate() once more.
W_Timeout ==
    /\ UNCHANGED calcVars
    /\ \E k \in 1..Len(children) :
          /\ Waiting(k)
          /\ children[k].state = "running" \/ children[k].desc = "piped"
          /\ children' = [children EXCEPT
                ![k].state = IF @ = "running" THEN "killed" ELSE @,
                ![k].timed_out = TRUE]
          /\ IF platform = "posix"
             THEN \E e_stdout \in {None, Bytes(40, FALSE)}, e_stderr \in {None, Bytes(40, FALSE)} :
                     SetResult(k, ResultOfTimeout(e_stdout, e_stderr))
             ELSE /\ pc' = IF k = 1 THEN "drain1" ELSE "drain2"
                  /\ UNCHANGED <<r1, r2>>
    /\ UNCHANGED <<source, static_rep, test_rep, v, appVars, e, platform, td>>

\* Windows: the second communicate() returns the text read once the pipes
\* are closed, and TimeoutExpired is re-raised with it.
W_Drained ==
    /\ UNCHANGED calcVars
    /\ \E k \in 1..Len(children) :
          /\ Draining(k)
          /\ children[k].desc # "piped"
          /\ \E mentions \in BOOLEAN, e_stderr \in {Str(0, FALSE), Str(40, FALSE)} :
                SetResult(k, ResultOfTimeout(Str(IF mentions THEN 40 ELSE 0, mentions), e_stderr))
    /\ UNCHANGED <<source, static_rep, test_rep, v, appVars, e, platform, td, children>>

\* A process the uploaded module started is still alive.
LiveDescendant == \E k \in 1..Len(children) : children[k].desc # "none"

\* Leaving the with block (line 321): TemporaryDirectory.__exit__ removes the
\* directory with rmtree.  While a process the module started is alive in the
\* directory (it is that process's working directory) rmtree can fail, with
\* ENOTEMPTY when the process writes a file during the removal and with a
\* sharing violation on Windows; the error leaves run_basic_unit_test and the
\* directory stays.  `exc` is the exception already on its way out, "" for none.
LeaveWith(exc, rr, used_cmd) ==
    /\ r1' = None
    /\ r2' = None
    /\ \/ /\ td' = FALSE
          /\ IF exc = ""
             THEN /\ test_rep' = TestRep(rr, used_cmd)
                  /\ pc' = "verdict"
                  /\ UNCHANGED e
             ELSE /\ Except(exc)
                  /\ UNCHANGED test_rep
       \/ /\ LiveDescendant
          /\ td' = TRUE
          /\ Except("OSError")
          /\ UNCHANGED test_rep

Returns(rr, used_cmd) == LeaveWith("", rr, used_cmd)

\* Lines 333-350 after the first invocation: retry without -I, or return r1.
W_Decide ==
    /\ UNCHANGED calcVars
    /\ pc = "decide"
    /\ LET d == RetryDecision(r1)
       IN  IF d = "TypeError"
           THEN /\ LeaveWith("TypeError", r1, cmd1)
                /\ UNCHANGED children
           ELSE IF d = "retry"
           THEN /\ children' = Append(children, Child(cmd2))
                /\ pc' = "wait2"
                /\ UNCHANGED <<test_rep, td, e, r1, r2>>
           ELSE /\ Returns(r1, cmd1)
                /\ UNCHANGED children
    /\ UNCHANGED <<source, static_rep, v, appVars, platform>>

\* A slip: the dict is built from r1 although the retry ran.
W_ReturnFirst ==
    /\ UNCHANGED calcVars
    /\ pc = "return"
    /\ Returns(r1, cmd2)
    /\ UNCHANGED <<source, static_rep, v, appVars, platform, children>>

\* Lines 336-350 after the second invocation.
W_Return ==
    /\ UNCHANGED calcVars
    /\ pc = "return"
    /\ Returns(r2, cmd2)
    /\ UNCHANGED <<source, static_rep, v, appVars, platform, children>>

\* Lines 684-686: the verdict, and the report handed to the main thread.
W_Verdict ==
    /\ UNCHANGED calcVars
    /\ pc = "verdict"
    /\ v' = verdict(static_rep, test_rep)
    /\ after_queue' = Append(after_queue, "render")
    /\ pc' = "idle"
    /\ UNCHANGED <<source, static_rep, test_rep, program_path, is_running, buttons,
                   status, output, runs, runVars>>

\* Line 689.
W_ExceptLog ==
    /\ UNCHANGED calcVars
    /\ pc = "except_log"
    /\ after_queue' = Append(after_queue, "log_error")
    /\ pc' = "except_set"
    /\ UNCHANGED <<source, static_rep, test_rep, v, program_path, is_running, buttons,
                   status, output, runs, runVars>>

\* Line 690.
W_ExceptSetRunning ==
    /\ UNCHANGED calcVars
    /\ pc = "except_set"
    /\ after_queue' = Append(after_queue, "set_running")
    /\ pc' = "except_exit"
    /\ UNCHANGED <<source, static_rep, test_rep, v, program_path, is_running, buttons,
                   status, output, runs, runVars>>

\* The except clause ends: the name e is deleted, the thread ends.
W_ExceptExit ==
    /\ UNCHANGED calcVars
    /\ pc = "except_exit"
    /\ e' = Unbound
    /\ pc' = "idle"
    /\ UNCHANGED <<source, static_rep, test_rep, v, appVars, platform, td, children, r1, r2>>

(***************************************************************************)
(* The callbacks the main thread runs (lines 686-690, 692-772).            *)
(***************************************************************************)
\* A mutation: an empty list of notes prints no line at all.
NoteLinesOrNothing(notes) ==
    <<LogLine("Notes:", <<>>)>> \o [i \in 1..Len(notes) |-> LogLine("  - {n}", <<notes[i]>>)]

\* Lines 695-700.
NoteLines(notes) ==
    IF notes # <<>>
    THEN <<LogLine("Notes:", <<>>)>> \o [i \in 1..Len(notes) |-> LogLine("  - {n}", <<notes[i]>>)]
    ELSE <<LogLine("Notes:", <<>>), LogLine("  - No major issues detected.", <<>>)>>

\* Lines 693-753: the summary and the static checks.
StaticLines(srep, vv) ==
    <<LogLine("=== Summary ===", <<>>), LogLine("Score: {score}   Level: {level}", <<vv>>)>>
        \o NoteLines(vv.notes)
        \o <<LogLine("=== Static Checks (no execution) ===", <<>>),
             LogLine("Syntax OK: {ok}", <<srep.syntax>>),
             LogLine("Style:", <<srep.style.counts>>),
             LogLine("Documentation:", <<srep.comments>>)>>
        \o (IF srep.ast.ok
            THEN <<LogLine("AST Checks:", <<srep.ast.docstrings_naming>>),
                   LogLine("  Complexity (top 5 functions):", <<srep.ast.complexity_top5>>)>>
            ELSE <<LogLine("  AST analysis failed: {error}", <<srep.ast.error>>)>>)
        \o <<LogLine("Risk Flags:", <<srep.risky_patterns.flags>>)>>

\* test_rep["stdout"] + "\n" needs a str.
Printable(stream) == stream.length = 0 \/ stream.kind = "str"

\* Lines 755-769: the lines logged, and whether a + raised TypeError.
UnitTestLines(trep) ==
    LET head == <<LogLine("=== Unit Test (imports your file) ===", <<>>)>>
        facts == <<LogLine("OK / Return code / Timed out:",
                           <<[ok |-> trep.ok, returncode |-> trep.returncode,
                              timed_out |-> trep.timed_out]>>),
                   LogLine("Output (tail):", <<>>)>>
        out == IF trep.stdout.length # 0
               THEN <<LogLine("--- stdout ---", <<>>), LogLine("{stdout}", <<trep.stdout>>)>>
               ELSE <<>>
        err == IF trep.stderr.length # 0
               THEN <<LogLine("--- stderr ---", <<>>), LogLine("{stderr}", <<trep.stderr>>)>>
               ELSE <<>>
    IN  IF trep = None
        THEN [lines |-> head \o <<LogLine("Skipped (syntax was not OK).", <<>>)>>, raised |-> FALSE]
        ELSE IF ~Printable(trep.stdout)
        THEN [lines |-> head \o facts \o <<LogLine("--- stdout ---", <<>>)>>, raised |-> TRUE]
        ELSE IF ~Printable(trep.stderr)
        THEN [lines |-> head \o facts \o out \o <<LogLine("--- stderr ---", <<>>)>>, raised |-> TRUE]
        ELSE [lines |-> head \o facts \o out \o err, raised |-> FALSE]

\* _render_report: when a line cannot be built the callback ends there,
\* before "Done." and before _set_running(False).
Cb_Render ==
    /\ UNCHANGED calcVars
    /\ after_queue # <<>>
    /\ Head(after_queue) = "render"
    /\ after_queue' = Tail(after_queue)
    /\ LET unit == UnitTestLines(test_rep)
       IN  IF unit.raised
           THEN /\ output' = output \o StaticLines(static_rep, v) \o unit.lines
                /\ UNCHANGED <<is_running, buttons, status>>
           ELSE /\ output' = output \o StaticLines(static_rep, v) \o unit.lines
                                 \o <<LogLine("Done.", <<>>)>>
                /\ SetRunning(FALSE)
    /\ UNCHANGED <<workVars, program_path, runs, runVars>>

\* lambda: self._log(f"\nUnexpected error:\n{e}\n"); reading e after the
\* except clause has ended raises NameError and nothing is logged.
Cb_LogError ==
    /\ UNCHANGED calcVars
    /\ after_queue # <<>>
    /\ Head(after_queue) = "log_error"
    /\ after_queue' = Tail(after_queue)
    /\ output' = IF e = Unbound THEN output
                 ELSE Append(output, LogLine("Unexpected error:", <<e>>))
    /\ UNCHANGED <<workVars, program_path, is_running, buttons, status, runs, runVars>>

\* lambda: self._set_running(False)
Cb_SetRunning ==
    /\ UNCHANGED calcVars
    /\ after_queue # <<>>
    /\ Head(after_queue) = "set_running"
    /\ after_queue' = Tail(after_queue)
    /\ SetRunning(FALSE)
    /\ UNCHANGED <<workVars, program_path, output, runs, runVars>>

Init ==
    /\ source = None
    /\ static_rep = None
    /\ test_rep = None
    /\ v = None
    /\ pc = "idle"
    /\ platform \in Platforms
    /\ InitApp
    /\ NoCalculator

Next ==
    \/ OnUpload
    \/ OnInfo
    \/ OnTest
    \/ W_StaticAnalysis
    \/ W_Stage
    \/ W_Launch1
    \/ ChildSpawn
    \/ ChildExit
    \/ DescExit
    \/ W_Completed
    \/ W_Timeout
    \/ W_Drained
    \/ W_Decide
    \/ W_Return
    \/ W_Verdict
    \/ W_ExceptLog
    \/ W_ExceptSetRunning
    \/ W_ExceptExit
    \/ Cb_Render
    \/ Cb_LogError
    \/ Cb_SetRunning

Spec == Init /\ [][Next]_vars

\* What the worker thread does by itself once started; subprocess.run's
\* timeout is part of it.  Threads get the processor again and again.
WorkerSteps ==
    \/ W_StaticAnalysis \/ W_Stage \/ W_Launch1 \/ W_Completed \/ W_Timeout \/ W_Drained
    \/ W_Decide \/ W_Return \/ W_Verdict \/ W_ExceptLog \/ W_ExceptSetRunning \/ W_ExceptExit

\* root.mainloop() (line 787) runs every callback handed to root.after.
MainLoop == Cb_Render \/ Cb_LogError \/ Cb_SetRunning

\* The application with a scheduler that lets the worker thread and the
\* main loop run; nothing is assumed about the user or about the processes
\* the tested program starts.
SpecLive == Spec /\ WF_vars(WorkerSteps) /\ WF_vars(MainLoop)

(***************************************************************************)
(* ScientificCalculator.preprocess and eval_expr                           *)
(* (src/ScientificCalculator.py 127-186).  A text is a sequence of         *)
(* characters; the four characters outside ASCII are written by name.      *)
(***************************************************************************)
TimesSign == "U+00D7"
DivisionSign == "U+00F7"
PiSign == "U+03C0"
RootSign == "U+221A"

\* \s as far as the bounded texts go.
Whitespace == {" ", "\t", "\n"}

\* The text starts with `word` at position i.
StartsAt(text, i, word) ==
    /\ i + Len(word) - 1 <= Len(text)
    /\ SubSeq(text, i, i + Len(word) - 1) = word

\* str.replace(old, new) for a single character old.
RECURSIVE ReplaceChar(_, _, _)
ReplaceChar(text, old, new) ==
    IF text = <<>> THEN <<>>
    ELSE (IF Head(text) = old THEN new ELSE <<Head(text)>>) \o ReplaceChar(Tail(text), old, new)

\* str.replace(old, new) for a word old, from position i on.
RECURSIVE ReplaceWord(_, _, _, _)
ReplaceWord(text, i, old, new) ==
    IF i > Len(text) THEN <<>>
    ELSE IF StartsAt(text, i, old) THEN new \o ReplaceWord(text, i + Len(old), old, new)
    ELSE <<text[i]>> \o ReplaceWord(text, i + 1, old, new)

WordChars == Lower \cup Upper \cup Digit \cup {"_"}

\* re.sub(r"(?<![0-9])e(?![A-Za-z0-9_])", "E", s)  (line 136)
ConstantE(text) ==
    [i \in 1..Len(text) |->
        IF /\ text[i] = "e"
           /\ (i = 1 \/ text[i - 1] \notin Digit)
           /\ (i = Len(text) \/ text[i + 1] \notin WordChars)
        THEN "E" ELSE text[i]]

\* The first position from i on that holds no character of `chars`.
RECURSIVE Skip(_, _, _)
Skip(text, i, chars) ==
    IF i <= Len(text) /\ text[i] \in chars THEN Skip(text, i + 1, chars) ELSE i

\* Where [0-9]+(\.[0-9]+)?|pi|E, tried at position i, ends (exclusive); i
\* when it does not match.
RootOperandEnd(text, i) ==
    LET d == Skip(text, i, Digit)
        f == IF d <= Len(text) /\ text[d] = "." THEN Skip(text, d + 1, Digit) ELSE d
    IN  IF d > i THEN (IF f > d + 1 THEN f ELSE d)
        ELSE IF StartsAt(text, i, <<"p", "i">>) THEN i + 2
        ELSE IF StartsAt(text, i, <<"E">>) THEN i + 1
        ELSE i

\* re.sub(r"<root>\s*([0-9]+(\.[0-9]+)?|pi|E)", r"sqrt(\1)", s)  (line 142)
RECURSIVE RootOfOperand(_, _)
RootOfOperand(text, i) ==
    IF i > Len(text) THEN <<>>
    ELSE LET from == Skip(text, i + 1, Whitespace)
             to == RootOperandEnd(text, from)
         IN  IF text[i] = RootSign /\ to > from
             THEN <<"s", "q", "r", "t", "(">> \o SubSeq(text, from, to - 1) \o <<")">>
                      \o RootOfOperand(text, to)
             ELSE <<text[i]>> \o RootOfOperand(text, i + 1)

\* re.sub(r"(heads)\s*(?=nexts)", r"\1*", s): the implicit multiplications of
\* lines 149-157.  At most one word of `heads` starts at a position.
RECURSIVE ImplicitTimes(_, _, _, _)
ImplicitTimes(text, i, heads, nexts) ==
    IF i > Len(text) THEN <<>>
    ELSE LET hit == {h \in heads :
                        /\ StartsAt(text, i, h)
                        /\ \E n \in nexts :
                              StartsAt(text, Skip(text, i + Len(h), Whitespace), n)}
         IN  IF hit # {}
             THEN LET h == CHOOSE w \in hit : TRUE
                  IN  h \o <<"*">>
                        \o ImplicitTimes(text, Skip(text, i + Len(h), Whitespace), heads, nexts)
             ELSE <<text[i]>> \o ImplicitTimes(text, i + 1, heads, nexts)

DigitWords == {<<d>> : d \in Digit}
ConstantWords == {<<"p", "i">>, <<"E">>}
FunctionCalls ==
    {<<"s", "i", "n", "(">>, <<"c", "o", "s", "(">>, <<"t", "a", "n", "(">>,
     <<"l", "o", "g", "(">>, <<"l", "n", "(">>, <<"s", "q", "r", "t", "(">>}

preprocess(text) ==
    LET s1 == ReplaceChar(ReplaceChar(text, TimesSign, <<"*">>), DivisionSign, <<"/">>)
        s2 == ReplaceChar(s1, PiSign, <<"p", "i">>)
        s3 == ConstantE(s2)
        s4 == ReplaceWord(s3, 1, <<RootSign, "(">>, <<"s", "q", "r", "t", "(">>)
        s5 == RootOfOperand(s4, 1)
        s6 == ReplaceChar(s5, "^", <<"*", "*">>)
        s7 == ImplicitTimes(s6, 1, DigitWords \cup {<<")">>} \cup ConstantWords, {<<"(">>})
        s8 == ImplicitTimes(s7, 1, DigitWords \cup {<<")">>}, ConstantWords)
        s9 == ImplicitTimes(s8, 1, ConstantWords, DigitWords \cup {<<"(">>})
        s10 == ImplicitTimes(s9, 1, {<<")">>}, DigitWords)
    IN  ImplicitTimes(s10, 1, DigitWords \cup {<<")">>} \cup ConstantWords, FunctionCalls)

\* The character class of line 183.
AllowedChars ==
    Digit \cup {".", "+", "-", "*", "/", "(", ")", ","} \cup Whitespace
        \cup Upper \cup Lower \cup {"_"}

\* A slip: re.search, which is content with one allowed character.
FullmatchAsSearch(text) == \E i \in 1..Len(text) : text[i] \in AllowedChars

\* re.fullmatch(r"[0-9\.\+\-\*\/\(\),\sA-Za-z_]+", s)
Fullmatch(text) == text # <<>> /\ AllIn(text, AllowedChars)

\* eval_expr: ValueError before eval is reached, or whatever eval does with
\* the preprocessed text (a value or an exception of its own).
eval_expr(text) ==
    LET pre == preprocess(text)
    IN  IF ~Fullmatch(pre)
        THEN [raised |-> "ValueError", evaluated |-> FALSE, text |-> pre]
        ELSE [raised |-> "", evaluated |-> TRUE, text |-> pre]

(***************************************************************************)
(* SpecCalc: eval_expr applied to every text of a bounded set.             *)
(***************************************************************************)
MaxExprLen == 3

ExprChars == {"2", ".", "e", "p", "(", ")", "^", " ", "'", TimesSign, PiSign, RootSign}

Exprs == UNION {[1..n -> ExprChars] : n \in 0..MaxExprLen}

InitCalc ==
    /\ source = None
    /\ static_rep = None
    /\ test_rep = None
    /\ v = None
    /\ pc = "eval_expr"
    /\ platform = "posix"
    /\ InitApp
    /\ expr \in Exprs
    /\ result = None

ApplyEvalExpr ==
    /\ pc = "eval_expr"
    /\ result' = eval_expr(expr)
    /\ pc' = "done"
    /\ UNCHANGED <<source, static_rep, test_rep, v, appVars, runVars, expr>>

NextCalc == ApplyEvalExpr

SpecCalc == InitCalc /\ [][NextCalc]_vars

(***************************************************************************)
(* Properties of verdict and of the static analysers, checked under        *)
(* SpecStatic.                                                             *)
(***************************************************************************)
Counts == static_rep.style.counts
Flags == static_rep.risky_patterns.flags
AstRan == static_rep.ast.ok
DocNaming == static_rep.ast.docstrings_naming

\* C1: the score is an integer between 0 and 100 and the level is the one
\* its threshold band prescribes.
C1_ScoreRangeAndLevel ==
    v # None =>
        /\ v.score \in 0..100
        /\ v.level = "Excellent" <=> v.score >= 90
        /\ v.level = "Good" <=> (75 <= v.score /\ v.score < 90)
        /\ v.level = "Fair" <=> (55 <= v.score /\ v.score < 75)
        /\ v.level = "Poor" <=> v.score < 55

\* A verdict whose deductions exceed 100, so that the clamp decided the score.
C1_Witness ==
    /\ v # None
    /\ RawScore(static_rep, test_rep) < 0
    /\ v.score = 0
    /\ v.level = "Poor"

\* C2: a text that compile() rejects with SyntaxError gets ok = false and an
\* error record, and the verdict of that run scores at most 20.
C2_InvalidSyntax ==
    (source.compiles = "SyntaxError" /\ pc # "static_analysis") =>
        /\ static_rep # None
        /\ static_rep.syntax.ok = FALSE
        /\ static_rep.syntax.error # None
        /\ v # None => v.score <= 20

\* An invalid text with nothing else wrong scores exactly 20; one with risk
\* hits scores less.
C2_Witness ==
    /\ source.compiles = "SyntaxError"
    /\ v # None
    /\ static_rep.syntax.error # None
    /\ v.score = 20

\* The deductions of the scoring table, summed.
C5_Deductions ==
    LET L == Counts.long_lines_gt_100
        R == Len(Flags)
        F == DocNaming.missing_function_docstrings
        N == Len(DocNaming.naming_issues)
    IN    (IF ~static_rep.syntax.ok THEN 80 ELSE 0)
        + (IF Counts.mixed_indentation = 1 THEN 10 ELSE 0)
        + (IF L > 0 THEN Min(10, (L \div 10) + 1) ELSE 0)
        + (IF R > 0 THEN Min(25, 5 * R) ELSE 0)
        + (IF ~DocNaming.module_has_docstring THEN 5 ELSE 0)
        + (IF F > 0 THEN Min(10, F) ELSE 0)
        + (IF N > 0 THEN Min(10, N) ELSE 0)
        + (IF test_rep # None /\ ~test_rep.ok THEN 30 ELSE 0)
        + (IF test_rep # None /\ test_rep.timed_out THEN 20 ELSE 0)

\* C5: when the AST analysis ran, the score is 100 minus the plain sum of
\* the table's deductions, clamped to 0..100; 15 long lines cost exactly 2.
C5_ScoreFormula ==
    (v # None /\ AstRan) =>
        /\ v.score = Max(0, Min(100, 100 - C5_Deductions))
        /\ Counts.long_lines_gt_100 = 15 =>
              RawScore(static_rep, test_rep) + 2
                  = RawScore([static_rep EXCEPT !.style.counts.long_lines_gt_100 = 0], test_rep)

\* A file with 15 long lines and nothing else wrong scores 98.
C5_Witness ==
    /\ v # None
    /\ AstRan
    /\ Counts.long_lines_gt_100 = 15
    /\ v.score = 98

PatternKeys == {patterns[i].pattern : i \in 1..Len(patterns)}

\* Nothing but the risk rule triggers.
NoOtherDeduction ==
    /\ static_rep.syntax.ok
    /\ Counts.mixed_indentation = 0
    /\ Counts.long_lines_gt_100 = 0
    /\ AstRan
    /\ DocNaming.module_has_docstring
    /\ DocNaming.missing_function_docstrings = 0
    /\ DocNaming.naming_issues = <<>>
    /\ test_rep # None /\ test_rep.ok /\ ~test_rep.timed_out

\* C6: every pattern key is flagged once if the text contains it, however
\* often, and not at all otherwise; a clean file that contains os.system and
\* no other pattern gets one risk note and loses exactly 5 points.
C6_OneHitPerKey ==
    static_rep # None =>
        /\ \A key \in PatternKeys :
              Cardinality({i \in 1..Len(Flags) : Flags[i].pattern = key})
                  = IF Occurrences(source, key) > 0 THEN 1 ELSE 0
        /\ Len(Flags) <= Len(patterns)
        /\ ( /\ v # None
             /\ NoOtherDeduction
             /\ \A key \in PatternKeys : Occurrences(source, key) > 0 <=> key = "os.system" )
           => /\ v.score = 95
              /\ v.notes = <<NoteRisky(1)>>

\* os.system occurs twice in a clean file: one flag, one note, 95 points.
C6_Witness ==
    /\ v # None
    /\ Occurrences(source, "os.system") = 2
    /\ Len(Flags) = 1
    /\ NoOtherDeduction
    /\ v.score = 95

\* The texts of the notes in the order of the scoring table.
C7_NoteTable ==
    << NoteSyntax.text, NoteMixed.text, NoteLong(0).text, NoteRisky(0).text,
       NoteModuleDoc.text, NoteFnDoc(0).text, NoteNaming(0).text,
       NoteFailed.text, NoteTimedOut.text >>

\* The rows of the table whose condition holds of the reports.
C7_Triggered ==
    {i \in 1..9 :
        \/ i = 1 /\ ~static_rep.syntax.ok
        \/ i = 2 /\ Counts.mixed_indentation = 1
        \/ i = 3 /\ Counts.long_lines_gt_100 > 0
        \/ i = 4 /\ Len(Flags) > 0
        \/ i = 5 /\ AstRan /\ ~DocNaming.module_has_docstring
        \/ i = 6 /\ AstRan /\ DocNaming.missing_function_docstrings > 0
        \/ i = 7 /\ AstRan /\ Len(DocNaming.naming_issues) > 0
        \/ i = 8 /\ test_rep # None /\ ~test_rep.ok
        \/ i = 9 /\ test_rep # None /\ test_rep.timed_out}

C7_Row(note) == CHOOSE i \in 1..9 : C7_NoteTable[i] = note.text

\* C7: the notes are one per triggered row of the table, none for another
\* row, in the order of the table.
C7_NotesInTableOrder ==
    v # None =>
        /\ \A j \in 1..Len(v.notes) : v.notes[j].text \in {C7_NoteTable[i] : i \in 1..9}
        /\ {C7_Row(v.notes[j]) : j \in 1..Len(v.notes)} = C7_Triggered
        /\ Len(v.notes) = Cardinality(C7_Triggered)
        /\ \A j \in 1..Len(v.notes), k \in 1..Len(v.notes) :
              j < k => C7_Row(v.notes[j]) < C7_Row(v.notes[k])

\* Every rule that can trigger on a text that compiles has triggered.
C7_Witness ==
    /\ v # None
    /\ Len(v.notes) = 8
    /\ v.notes[1] = NoteMixed
    /\ v.notes[8] = NoteTimedOut

(***************************************************************************)
(* Properties of the application, checked under Spec.                      *)
(***************************************************************************)
VerdictReached == v # None \/ pc = "verdict"

\* C3: when the verdict stage is reached, a sandbox result is present
\* exactly if the syntax check succeeded, and no child process is ever
\* launched for a text whose syntax check failed.
C3_SandboxIffSyntaxOk ==
    /\ VerdictReached => (test_rep # None <=> static_rep.syntax.ok)
    /\ (static_rep # None /\ ~static_rep.syntax.ok) => children = <<>>

\* A run on a text with a syntax error reached its verdict without a child.
C3_Witness ==
    /\ v # None
    /\ ~static_rep.syntax.ok
    /\ test_rep = None
    /\ children = <<>>
    /\ runs = 1

\* No rule of verdict triggers.
NoDeduction == NoOtherDeduction /\ Flags = <<>>

Rendered == \E i \in 1..Len(output) : output[i].text = "=== Summary ==="

\* The lines of the output widget that show a note.
ShownNotes ==
    SelectSeq(output, LAMBDA l : l.text \in {"  - {n}", "  - No major issues detected."})

\* C4 as stated: with no deduction the verdict has score 100, level
\* Excellent and exactly one note, the one that says no major issues were
\* detected.
C4_VerdictHoldsTheNote ==
    (v # None /\ NoDeduction) =>
        /\ v.score = 100
        /\ v.level = "Excellent"
        /\ Len(v.notes) = 1
        /\ v.notes[1].text = "No major issues detected."

\* C4 amended: with no deduction the verdict has score 100, level Excellent
\* and an empty list of notes; the rendered report then shows exactly one
\* note line, "No major issues detected.".
C4_CleanRun ==
    (v # None /\ NoDeduction) =>
        /\ v.score = 100
        /\ v.level = "Excellent"
        /\ v.notes = <<>>
        /\ Rendered => ShownNotes = <<LogLine("  - No major issues detected.", <<>>)>>

\* The report of a clean run has been rendered.
C4_Witness ==
    /\ v # None
    /\ NoDeduction
    /\ Rendered
    /\ Len(ShownNotes) = 1

ResultOf(k) == IF k = 1 THEN r1 ELSE r2

\* C8: when the timeout expired for an invocation, safe_run returns a result
\* with timed_out, not ok and return code 124; a verdict on such a result is
\* 50 below the verdict on a successful run and ends with the failure note
\* and the timeout note.
C8_TimeoutIsAResult ==
    /\ \A k \in 1..Len(children) :
          (children[k].timed_out /\ pc = AfterRun(k)) =>
              /\ ResultOf(k) # None
              /\ ResultOf(k).timed_out
              /\ ~ResultOf(k).ok
              /\ ResultOf(k).returncode = 124
    /\ (v # None /\ test_rep # None /\ test_rep.timed_out) =>
          /\ ~test_rep.ok
          /\ test_rep.returncode = 124
          /\ RawScore(static_rep, test_rep) + 50
                = RawScore(static_rep, [test_rep EXCEPT !.ok = TRUE, !.timed_out = FALSE])
          /\ Len(v.notes) >= 2
          /\ SubSeq(v.notes, Len(v.notes) - 1, Len(v.notes)) = <<NoteFailed, NoteTimedOut>>

\* A run whose last invocation was killed at the timeout got its verdict.
C8_Witness ==
    /\ v # None
    /\ test_rep # None
    /\ test_rep.timed_out
    /\ children[Len(children)].state = "killed"
    /\ children[Len(children)].timed_out

\* safe_run has returned for invocation k.
SafeRunReturned(k) == ~Waiting(k) /\ ~Draining(k)

\* C9: once safe_run has returned after a timeout, neither the child nor a
\* process the child started is alive.
C9_NoOrphanAfterTimeout ==
    \A k \in 1..Len(children) :
        (children[k].timed_out /\ SafeRunReturned(k)) =>
            /\ children[k].state # "running"
            /\ children[k].desc = "none"

\* C10: a second invocation exists only if the first one ended by itself
\* because a module could not be found.
C10_RetryOnlyForMissingModule ==
    Len(children) >= 2 =>
        /\ children[1].cause = "module_not_found"
        /\ ~children[1].timed_out

\* The step in which run_basic_unit_test returns its dict.
SandboxReturns == test_rep' # test_rep /\ test_rep' # None

C11_Step ==
    /\ Len(children') <= 2
    /\ Len(children') > Len(children) =>
          \A k \in 1..Len(children) : children[k].state # "running"
    /\ SandboxReturns =>
          LET k == Len(children)
              last == children[k]
              rr == ResultOf(k)
          IN  /\ children' = children
              /\ test_rep'.command = last.cmd
              /\ test_rep'.ok = rr.ok
              /\ test_rep'.ok = (~last.timed_out /\ last.returncode = 0)
              /\ test_rep'.returncode = rr.returncode
              /\ test_rep'.returncode = IF last.timed_out THEN 124 ELSE last.returncode
              /\ test_rep'.timed_out = rr.timed_out
              /\ test_rep'.timed_out = last.timed_out
              /\ test_rep'.stdout = TailOf(rr.stdout)
              /\ test_rep'.stderr = TailOf(rr.stderr)
              /\ ~last.timed_out =>
                    /\ test_rep'.stdout = TailOf(StdoutOf(last))
                    /\ test_rep'.stderr = TailOf(StderrOf(last))

\* C11: a sandbox run launches at most two invocations, the second only
\* once the first is no longer running, and every field of the returned dict
\* and its recorded command come from the last invocation launched.
C11_LastInvocationReturned == [][C11_Step]_vars

\* The retry ran and passed after the first invocation had failed to find a
\* module: the dict holds the second command and the second outcome.
C11_Witness ==
    /\ test_rep # None
    /\ Len(children) = 2
    /\ children[1].cause = "module_not_found"
    /\ children[2].cause = "pass"
    /\ test_rep.command = cmd2
    /\ test_rep.ok

\* The worker thread is inside the with block of run_basic_unit_test.
InsideWith == pc \in {"launch1", "wait1", "drain1", "decide", "wait2", "drain2", "return"}

\* C12: once run_basic_unit_test has returned or raised, the staging
\* directory no longer exists.
C12_StagingDirectoryRemoved == td => InsideWith

\* The step in which verdict returns.
VerdictReturns == v' # v /\ v' # None

\* What the score, the level and the notes are as functions of the two
\* reports and of nothing else.
ScoreOf(srep, trep) == ClampScore(RawScore(srep, trep))
NotesOf(srep, trep) ==
    LET rules == VerdictRules(srep, trep) IN RunRules(rules, Len(rules)).notes

C13_Step ==
    /\ v' # None =>
          /\ v'.score = ScoreOf(static_rep', test_rep')
          /\ v'.level = LevelOf(ScoreOf(static_rep', test_rep'))
          /\ v'.notes = NotesOf(static_rep', test_rep')
    /\ VerdictReturns =>
          /\ static_rep' = static_rep
          /\ test_rep' = test_rep
          /\ UNCHANGED <<source, program_path, is_running, buttons, status, output, runs, runVars>>

Body == source.tree.body

Flagged(node, type) ==
    \E i \in 1..Len(DocNaming.naming_issues) :
        DocNaming.naming_issues[i] = [type |-> type, name |-> node.name, lineno |-> node.lineno]

Underscored(name) == name # <<>> /\ Head(name) = "_"

\* The top-level definitions the claim says are flagged.
ToFlag ==
    {k \in 1..Len(Body) :
        \/ /\ Body[k].kind \in FunctionKinds
           /\ ~Underscored(Body[k].name)
           /\ ~SNAKE_CASE_RE(Body[k].name)
        \/ /\ Body[k].kind = "ClassDef"
           /\ ~Underscored(Body[k].name)
           /\ ~PASCAL_CASE_RE(Body[k].name)}

\* C14: a top-level function is flagged exactly if its name neither starts
\* with an underscore nor matches the snake pattern, a top-level class
\* exactly if its name neither starts with an underscore nor matches the
\* PascalCase pattern, and nothing else is flagged; MyFunction is flagged as
\* a function and _Helper never is.
C14_NamingFlags ==
    (static_rep # None /\ AstRan) =>
        /\ \A k \in 1..Len(Body) :
              /\ Body[k].kind \in FunctionKinds =>
                    (Flagged(Body[k], "FunctionNameNotSnakeCase") <=> k \in ToFlag)
              /\ Body[k].kind = "ClassDef" =>
                    (Flagged(Body[k], "ClassNameNotPascalCase") <=> k \in ToFlag)
              /\ (Body[k].kind \in FunctionKinds /\ Body[k].name = MyFunction) =>
                    Flagged(Body[k], "FunctionNameNotSnakeCase")
              /\ Body[k].name = Helper =>
                    /\ ~Flagged(Body[k], "FunctionNameNotSnakeCase")
                    /\ ~Flagged(Body[k], "ClassNameNotPascalCase")
        /\ Len(DocNaming.naming_issues) = Cardinality(ToFlag)

\* A module with the functions MyFunction and _Helper: one issue, for the
\* first.
C14_Witness ==
    /\ static_rep # None
    /\ AstRan
    /\ Len(Body) = 2
    /\ Body[1].kind = "FunctionDef" /\ Body[1].name = MyFunction
    /\ Body[2].kind = "FunctionDef" /\ Body[2].name = Helper
    /\ Len(DocNaming.naming_issues) = 1
    /\ DocNaming.naming_issues[1].name = MyFunction

\* C15: whatever compile() does with the text, syntax_check returns a
\* result and static_analysis gets no exception from it.
C15_SyntaxCheckNeverRaises ==
    /\ ~syntax_check(source).raised
    /\ pc # "raised"

Comments == static_rep.comments

\* C16: when tokenize fails somewhere in the text, comment_stats reports no
\* comment line, density 0 and an empty sample, also when comments precede
\* the failure.
C16_TokenizeFailureMeansNoComments ==
    (static_rep # None /\ source.tok_error # 0) =>
        /\ Comments.comment_lines = 0
        /\ Comments.comment_density = 0
        /\ Comments.sample_comments = <<>>

\* Tokenizing failed on the line after two comment lines.
C16_Witness ==
    /\ static_rep # None
    /\ source.tok_error = 3
    /\ source.lines[1].comment # <<>>
    /\ source.lines[2].comment # <<>>
    /\ Comments.comment_lines = 0

\* The worker thread of the current run ended in its exception handler.
RunFailed == pc = "idle" /\ runs > 0 /\ v = None

\* ... because the file could not be read, or because the staging directory
\* could not be created or populated.
ReadFailed == RunFailed /\ source = None /\ static_rep = None
StagingFailed == RunFailed /\ static_rep # None /\ static_rep.syntax.ok /\ children = <<>>

ErrorShown == \E i \in 1..Len(output) : output[i].text = "Unexpected error:"

\* C17: a run that hit a fatal error has no verdict and no rendered report,
\* and once its callbacks have run the output shows the error message with
\* the text of the exception.
C17_FatalErrorSurfaced ==
    (ReadFailed \/ StagingFailed) =>
        /\ v = None
        /\ ~Rendered
        /\ after_queue = <<>> => ErrorShown

\* The allowed set in the words of the claim.
C18_Allowed ==
    Digit \cup {".", "+", "-", "*", "/", "(", ")", ",", " ", "\t", "\n", "_"}
        \cup Lower \cup Upper

\* C18: when the preprocessed text holds a character outside the allowed
\* set, eval_expr raises ValueError and eval has not run.
C18_InvalidCharactersRejected ==
    (result # None /\ \E i \in 1..Len(preprocess(expr)) : preprocess(expr)[i] \notin C18_Allowed) =>
        /\ result.raised = "ValueError"
        /\ ~result.evaluated

\* A text with a quote next to allowed characters was rejected.
C18_Witness ==
    /\ result # None
    /\ Len(expr) = 3
    /\ expr[1] = "2"
    /\ expr[2] = "'"
    /\ result.raised = "ValueError"

StyleIssues == static_rep.style.issues

MixedIssues == {i \in 1..Len(StyleIssues) : StyleIssues[i].type = "MixedIndentation"}

\* C19: when a line starts with a tab and a line starts with a space, the
\* mixed-indentation flag is set and the list of issues holds exactly one
\* MixedIndentation issue, without a line number, however many other issues
\* the text produces.
C19_MixedIndentationIssue ==
    ( /\ static_rep # None
      /\ \E i \in 1..Len(source.lines) : source.lines[i].start = "\t"
      /\ \E i \in 1..Len(source.lines) : source.lines[i].start = " " )
    => /\ Counts.mixed_indentation = 1
       /\ Cardinality(MixedIssues) = 1
       /\ \A i \in MixedIssues : StyleIssues[i].line = <<>>

ComplexityAll == static_rep.ast.complexity_all
ComplexityTop5 == static_rep.ast.complexity_top5

\* The function and method definitions anywhere in the tree.
Definitions == SelectSeq(Walk(source.tree), LAMBDA n : n.kind \in FunctionKinds)

\* C20: the complexity list has one entry per function or method
\* definition at any depth, in non-increasing order of complexity, entries
\* of equal complexity in the order in which the visitor met them, and
\* complexity_top5 is its first min(5, n) entries.
C20_ComplexityRanking ==
    (static_rep # None /\ AstRan) =>
        LET all == ComplexityAll
            defs == Definitions
            met == Visit(source.tree)
            place == [i \in 1..Len(all) |->
                         CHOOSE k \in 1..Len(met) : met[k].lineno = all[i].lineno]
        IN  /\ Len(all) = Len(defs)
            /\ \A d \in 1..Len(defs) :
                  Cardinality({i \in 1..Len(all) :
                                  /\ all[i].name = defs[d].name
                                  /\ all[i].lineno = defs[d].lineno}) = 1
            /\ \A i \in 1..(Len(all) - 1) :
                  /\ all[i].complexity >= all[i + 1].complexity
                  /\ all[i].complexity = all[i + 1].complexity => place[i] < place[i + 1]
            /\ ComplexityTop5 = SubSeq(all, 1, Min(5, Len(all)))

\* Six definitions, among them methods and a nested function, with ties:
\* five of them make the top 5.
C20_Witness ==
    /\ static_rep # None
    /\ AstRan
    /\ Len(ComplexityAll) = 6
    /\ Len(ComplexityTop5) = 5
    /\ ComplexityAll[1].complexity > ComplexityAll[6].complexity
    /\ ComplexityAll[1].complexity = ComplexityAll[2].complexity
    /\ ComplexityAll[1].lineno = 11
    /\ \E i \in 1..Len(source.tree.body) : source.tree.body[i].kind = "ClassDef"

\* The increments the statement of the complexity names: one per
\* conditional, loop (for, while, asynchronous for), try block, except
\* clause, with block (plain or asynchronous) and match statement, and
\* n - 1 per boolean operation of n operands.
BranchingKinds ==
    {"If", "For", "While", "AsyncFor", "Try", "ExceptHandler", "With", "AsyncWith", "Match"}

RECURSIVE Branching(_)
Branching(nodes) ==
    IF nodes = <<>> THEN 0
    ELSE (IF Head(nodes).kind \in BranchingKinds THEN 1
          ELSE IF Head(nodes).kind = "BoolOp" THEN Head(nodes).values - 1
          ELSE 0) + Branching(Tail(nodes))

\* The entry of the complexity list for a definition.
EntryOf(d) ==
    CHOOSE i \in 1..Len(ComplexityAll) :
        ComplexityAll[i].name = d.name /\ ComplexityAll[i].lineno = d.lineno

\* C21: the complexity of every function is 1, plus one for every
\* conditional, loop (for, while, asynchronous for), try block, except
\* clause, with block (plain or asynchronous) and match statement in its
\* subtree, plus n - 1 for every boolean operation of n operands.
C21_ComplexityCounts ==
    (static_rep # None /\ AstRan) =>
        LET defs == Definitions
        IN  \A d \in 1..Len(defs) :
                ComplexityAll[EntryOf(defs[d])].complexity = 1 + Branching(Walk(defs[d]))

\* The definitions strictly inside a node.
Enclosed(d) == SelectSeq(Tail(Walk(d)), LAMBDA n : n.kind \in FunctionKinds)

ScoreOfDefinition(d) == ComplexityAll[EntryOf(d)].complexity

\* C22: every function defined inside another one has an entry of its own,
\* its control-flow nodes are counted in the score of every function around
\* it as well, and so no function scores less than a function inside it.
C22_EnclosingScoresAtLeastNested ==
    (static_rep # None /\ AstRan) =>
        LET defs == Definitions
        IN  \A o \in 1..Len(defs) :
                LET inner == Enclosed(defs[o])
                IN  \A i \in 1..Len(inner) :
                        /\ Cardinality({k \in 1..Len(ComplexityAll) :
                                           /\ ComplexityAll[k].name = inner[i].name
                                           /\ ComplexityAll[k].lineno = inner[i].lineno}) = 1
                        /\ ScoreOfDefinition(defs[o]) >= 1 + SumIncrements(Walk(inner[i]))
                        /\ ScoreOfDefinition(defs[o]) >= ScoreOfDefinition(inner[i])

\* Three definitions inside one another; the innermost has two branches,
\* the method around it scores the same and the outermost scores more.
C22_Witness ==
    /\ static_rep # None
    /\ AstRan
    /\ source.tree.body = <<DeeplyNested(10, 2)>>
    /\ Len(ComplexityAll) = 3
    /\ ScoreOfDefinition(source.tree.body[1]) = 4
    /\ \E k \in 1..3 : ComplexityAll[k].lineno = 13 /\ ComplexityAll[k].complexity = 3
    /\ \E k \in 1..3 : ComplexityAll[k].lineno = 12 /\ ComplexityAll[k].complexity = 3

\* The notes of the verdict about docstrings and naming, by their text.
DocNamingNotes ==
    {i \in 1..Len(v.notes) :
        v.notes[i].text \in {NoteModuleDoc.text, NoteFnDoc(0).text, NoteNaming(0).text}}

\* The score when only syntax, style, risk and the sandbox outcome count.
ScoreWithoutAst ==
    LET syn == IF static_rep.syntax.ok THEN 0 ELSE 80
        mixed == IF Counts.mixed_indentation # 0 THEN 10 ELSE 0
        ll == Counts.long_lines_gt_100
        long == IF ll # 0 THEN Min(10, (ll \div 10) + 1) ELSE 0
        risk == IF Flags # <<>> THEN Min(25, 5 * Len(Flags)) ELSE 0
        failed == IF test_rep # None /\ ~test_rep.ok THEN 30 ELSE 0
        timed == IF test_rep # None /\ test_rep.timed_out THEN 20 ELSE 0
    IN  Max(0, Min(100, 100 - syn - mixed - long - risk - failed - timed))

\* C23: when the AST analysis was skipped or raised, the static report still
\* holds the style, risk and comment reports and an AST block with
\* ok = false and a reason, and the verdict carries no module-docstring,
\* function-docstring or naming note and a score that syntax, style, risk
\* and the sandbox outcome alone determine.
C23_FailedAstChangesNoScore ==
    (static_rep # None /\ ~AstRan) =>
        /\ static_rep.style = style_check(source)
        /\ static_rep.risky_patterns = risky_patterns(source)
        /\ static_rep.comments = comment_stats(source)
        /\ DOMAIN static_rep.ast = {"ok", "error"}
        /\ static_rep.ast.error # ""
        /\ ~static_rep.syntax.ok => static_rep.ast.error = "Skipped due to syntax error."
        /\ v # None =>
              /\ DocNamingNotes = {}
              /\ v.score = ScoreWithoutAst

\* The parse raised on a text that compiles; the sandbox ran and failed, a
\* risky pattern was found, and the verdict is 100 - 5 - 30.
C23_Witness ==
    /\ static_rep # None
    /\ ~AstRan
    /\ static_rep.syntax.ok
    /\ static_rep.ast.error = "str(e)"
    /\ Len(Flags) = 1
    /\ test_rep # None /\ ~test_rep.ok /\ ~test_rep.timed_out
    /\ v # None
    /\ v.score = 65

\* The worker thread has a step of the pipeline or a callback to schedule
\* still ahead of it.
WorkerInFlight == pc \notin {"idle", "except_exit"}

\* A Test click starts a worker thread.
WorkerStarts == runs' = runs + 1

C24_Step ==
    /\ WorkerInFlight => is_running
    /\ WorkerInFlight' => is_running'
    /\ WorkerStarts => ~is_running /\ ~WorkerInFlight /\ is_running' /\ WorkerInFlight'
    /\ is_running => runs' = runs /\ program_path' = program_path
    /\ WorkerInFlight => program_path' = program_path

\* C24: over any sequence of Upload, Test and Info clicks and worker steps,
\* a worker thread starts only when none is in flight, a Test click while
\* is_running is true starts nothing, and the selected path does not change
\* while a run is in progress.
C24_OneWorkerAtATime == [][C24_Step]_vars

\* The second run of a session, on another file than the first, is in
\* progress: its sandbox child is running and every button is disabled.
C24_Witness ==
    /\ runs = 2
    /\ is_running
    /\ WorkerInFlight
    /\ program_path = "b.py"
    /\ Selected(output) = 0
    /\ children # <<>>
    /\ buttons = [upload |-> "disabled", test |-> "disabled", info |-> "disabled"]

\* The state _set_running(False) leaves behind.
ReadyAgain ==
    /\ ~is_running
    /\ buttons.upload = "normal"
    /\ buttons.test = "normal"
    /\ buttons.info = "normal"

\* C25: every test run that was started eventually ends with is_running
\* false and the Upload, Test and Info buttons enabled again, whether the
\* report was rendered or the worker raised.
C25_RunEventuallyEnds == is_running ~> ReadyAgain

====
